---------------------------- MODULE Spec2Model ----------------------------
(***************************************************************************)
(* A model of process_pix.py: the extraction of payment-registration       *)
(* records from loosely structured spreadsheet workbooks.                  *)
(*                                                                         *)
(* Representation.  A Python str is a sequence of one-character strings.   *)
(* A Python int is unbounded, so it is kept as its canonical decimal       *)
(* digits (no leading zeros) and a sign.  A cell of a parsed sheet is one  *)
(* of: nan (a missing cell: NaN/None/NaT), str, int, float, other (any     *)
(* other object, kept as its str() text); row.get gives none for an absent *)
(* key.  A float is kept as the digits of its integer part and of its      *)
(* fraction (no trailing zeros), which is how "%.15g" prints a float of at *)
(* most 15 significant digits.  Column and row indices are 0-based as in   *)
(* the source; None is -1.                                                 *)
(***************************************************************************)
EXTENDS Integers, Sequences, FiniteSets, TLC

VARIABLES
    directory,      \* the working directory: file name -> workbook
    pc,             \* position of the program
    files,          \* main: the sorted list of workbook paths
    file_i,         \* main: index of the current file_path in files (1-based)
    all_records,    \* main: all_records
    sheet_i,        \* process_workbook: index of the current sheet (1-based)
    wb_records,     \* process_workbook: records
    header_idx,     \* extract_rows_from_sheet: header_idx
    cpf_idx,        \* extract_rows_from_sheet: cpf_idx
    banco_idx,      \* extract_rows_from_sheet: banco_idx
    agencia_idx,    \* extract_rows_from_sheet: agencia_idx
    conta_idx,      \* extract_rows_from_sheet: conta_idx
    chave_tipo_idx, \* extract_rows_from_sheet: chave_tipo_idx
    chave_val_idx,  \* extract_rows_from_sheet: chave_val_idx
    name_idx,       \* extract_rows_from_sheet: name_idx
    row_i,          \* extract_rows_from_sheet: 0-based index of the next row
    records,        \* extract_rows_from_sheet: records
    output_json,    \* the record list written to OUTPUT_JSON
    output_xlsx,    \* the table written to OUTPUT_XLSX
    value,          \* numeric_or_string called on its own: the argument
    result          \* numeric_or_string called on its own: the returned value

mainVars == <<files, file_i, all_records>>
workbookVars == <<sheet_i, wb_records>>
columnVars == <<header_idx, cpf_idx, banco_idx, agencia_idx, conta_idx,
                chave_tipo_idx, chave_val_idx, name_idx>>
sheetVars == <<columnVars, row_i, records>>
outputVars == <<output_json, output_xlsx>>
coerceVars == <<value, result>>
vars == <<directory, pc, mainVars, workbookVars, sheetVars, outputVars, coerceVars>>

-----------------------------------------------------------------------------
(* Bounds of the checked instances. *)

\* longest text handed to numeric_or_string on its own
MaxLen == 3
\* most rows of a sheet in the single-sheet instances
MaxRows == 3
\* most workbooks of a batch besides a prior pix_output.xlsx
MaxFiles == 2
\* most sheets of a batch, over all its workbooks
MaxSheets == 3

-----------------------------------------------------------------------------
(* Python values. *)

\* None as a column or row index, and as a local that is not bound
None == -1

\* None as a value (what row.get returns for an absent key)
PyNone == [type |-> "none"]

PyStr(s) == [type |-> "str", s |-> s]

PyInt(neg, digits) == [type |-> "int", neg |-> neg, digits |-> digits]

NaN == [type |-> "nan"]

PyFloat(neg, digits, frac) ==
    [type |-> "float", neg |-> neg, digits |-> digits, frac |-> frac]

PyOther(s) == [type |-> "other", s |-> s]

\* a character that str.isdigit accepts and int() rejects (U+00B2)
SUPERSCRIPT_TWO == "sup2"

DecimalChars == {"0", "1", "2", "3", "4", "5", "6", "7", "8", "9"}

LowerLetters == <<"a", "b", "c", "d", "e", "f", "g", "h", "i", "j", "k", "l", "m",
                  "n", "o", "p", "q", "r", "s", "t", "u", "v", "w", "x", "y", "z">>

UpperLetters == <<"A", "B", "C", "D", "E", "F", "G", "H", "I", "J", "K", "L", "M",
                  "N", "O", "P", "Q", "R", "S", "T", "U", "V", "W", "X", "Y", "Z">>

\* the characters of the model in code-point order
CodePoints == <<"\t", "\n", " ", "-", ".", "/">>
              \o <<"0", "1", "2", "3", "4", "5", "6", "7", "8", "9">>
              \o UpperLetters \o <<"_">> \o LowerLetters \o <<SUPERSCRIPT_TWO>>

CodePointOf == [ch \in {CodePoints[i] : i \in 1..Len(CodePoints)} |->
                   CHOOSE i \in 1..Len(CodePoints) : CodePoints[i] = ch]

ord(ch) == CodePointOf[ch]

\* ch.isspace()
isspace(ch) == ch \in {" ", "\t", "\n"}

\* ch.isdigit()
char_isdigit(ch) == ch \in DecimalChars \cup {SUPERSCRIPT_TWO}

UpperOf == [ch \in {LowerLetters[i] : i \in 1..Len(LowerLetters)} |->
               UpperLetters[CHOOSE i \in 1..Len(LowerLetters) : LowerLetters[i] = ch]]

\* ch.upper()
char_upper(ch) == IF ch \in DOMAIN UpperOf THEN UpperOf[ch] ELSE ch

\* s.upper()
upper(s) == [i \in 1..Len(s) |-> char_upper(s[i])]

RECURSIVE lstrip(_)
lstrip(s) ==
    IF s = <<>> THEN <<>>
    ELSE IF isspace(Head(s)) THEN lstrip(Tail(s)) ELSE s

RECURSIVE rstrip(_)
rstrip(s) ==
    IF s = <<>> THEN <<>>
    ELSE IF isspace(s[Len(s)]) THEN rstrip(SubSeq(s, 1, Len(s) - 1)) ELSE s

\* s.strip()
strip(s) == rstrip(lstrip(s))

\* sub in s
contains(s, sub) ==
    \E i \in 0..(Len(s) - Len(sub)) : SubSeq(s, i + 1, i + Len(sub)) = sub

\* s.startswith(prefix)
startswith(s, prefix) ==
    Len(s) >= Len(prefix) /\ SubSeq(s, 1, Len(prefix)) = prefix

\* s.isdigit()
isdigit(s) == s # <<>> /\ \A i \in 1..Len(s) : char_isdigit(s[i])

RECURSIVE StripZeros(_)
StripZeros(digits) ==
    IF Len(digits) > 1 /\ Head(digits) = "0" THEN StripZeros(Tail(digits))
    ELSE digits

\* whether int(s) returns (it raises ValueError otherwise)
int_parses(s) == s # <<>> /\ \A i \in 1..Len(s) : s[i] \in DecimalChars

\* int(s), for a text of decimal digits
int(s) == PyInt(FALSE, StripZeros(s))

\* str(n) of an int
str_of_int(neg, digits) == IF neg THEN <<"-">> \o digits ELSE digits

-----------------------------------------------------------------------------
(* clean_value and numeric_or_string. *)

clean_value(cell) ==
    CASE cell.type = "none" -> <<>>
      [] cell.type = "nan" -> <<>>
      [] cell.type = "float" ->
            IF cell.frac = <<>>
            THEN str_of_int(cell.neg, cell.digits)
            ELSE strip(str_of_int(cell.neg, cell.digits) \o <<".">> \o cell.frac)
      [] cell.type = "int" -> str_of_int(cell.neg, cell.digits)
      [] cell.type = "str" -> strip(cell.s)
      [] cell.type = "other" -> strip(cell.s)

\* numeric_or_string without the comparison of lengths of line 47
numeric_or_string_any_digit(v) ==
    IF v = <<>> THEN PyStr(<<>>)
    ELSE LET digits == SelectSeq(v, char_isdigit)
         IN  IF digits # <<>>
             THEN IF int_parses(digits) THEN int(digits) ELSE PyStr(v)
             ELSE PyStr(v)

numeric_or_string(v) ==
    IF v = <<>> THEN PyStr(<<>>)
    ELSE LET digits == SelectSeq(v, char_isdigit)
         IN  IF digits # <<>> /\ Len(digits) = Len(v)
             THEN IF int_parses(digits) THEN int(digits) ELSE PyStr(v)
             ELSE PyStr(v)

-----------------------------------------------------------------------------
(* A sheet (df) is a sequence of rows of one width, a row a sequence of    *)
(* cells; row r (0-based) is df[r + 1] and its column c is df[r + 1][c + 1]. *)

COLUMNS == <<"NOME ", "CPF", "COD BANCO", "BANCO", "AGENCIA", "CONTA",
             "TIPO CHAVE PIX", "CHAVE PIX">>

CPF == <<"C", "P", "F">>
BANCO == <<"B", "A", "N", "C", "O">>
AGENCIA == <<"A", "G", "E", "N", "C", "I", "A">>
CONTA == <<"C", "O", "N", "T", "A">>
CHAVE_PIX == <<"C", "H", "A", "V", "E", " ", "P", "I", "X">>
PIX == <<"P", "I", "X">>
TOTAL == <<"T", "O", "T", "A", "L">>

\* row.get(key)
row_get(row, key) == IF key \in 0..(Len(row) - 1) THEN row[key + 1] ELSE PyNone

\* isinstance(cell, str)
is_str(cell) == cell.type = "str"

\* pd.isna(cell)
isna(cell) == cell.type \in {"nan", "none"}

Min(S) == CHOOSE x \in S : \A y \in S : x <= y

\* find_header_row returning the last row that qualifies
find_header_row_last(sheet) ==
    LET hits == {r \in 0..(Len(sheet) - 1) :
                    \E c \in 1..Len(sheet[r + 1]) :
                        /\ is_str(sheet[r + 1][c])
                        /\ contains(upper(sheet[r + 1][c].s), CPF)}
    IN  IF hits = {} THEN None ELSE CHOOSE r \in hits : \A q \in hits : q <= r

find_header_row(sheet) ==
    LET hits == {r \in 0..(Len(sheet) - 1) :
                    \E c \in 1..Len(sheet[r + 1]) :
                        /\ is_str(sheet[r + 1][c])
                        /\ contains(upper(sheet[r + 1][c].s), CPF)}
    IN  IF hits = {} THEN None ELSE Min(hits)

\* lines 96-99: column index -> stripped, upper-cased text of a text header cell
header_labels(header_row) ==
    [c \in {c \in 0..(Len(header_row) - 1) : is_str(header_row[c + 1])} |->
        upper(strip(header_row[c + 1].s))]

\* label_idx matching a label that contains the wanted text
label_idx_substring(labels, wanted) ==
    LET hits == {c \in DOMAIN labels : contains(labels[c], wanted)}
    IN  IF hits = {} THEN None ELSE Min(hits)

\* next((idx for idx, label in header_labels.items() if label == wanted), None)
label_idx(labels, wanted) ==
    LET hits == {c \in DOMAIN labels : labels[c] = wanted}
    IN  IF hits = {} THEN None ELSE Min(hits)

\* any(isinstance(val, str) and val.strip() for val in data.iloc[:, col])
has_text(sheet, hdr, col) ==
    \E r \in (hdr + 1)..(Len(sheet) - 1) :
        /\ is_str(sheet[r + 1][col + 1])
        /\ strip(sheet[r + 1][col + 1].s) # <<>>

\* find_name_column without its first pass
find_name_column_leftmost(sheet, hdr, cpf, header_row) ==
    IF cpf <= 0 THEN None
    ELSE LET second == {col \in 0..(cpf - 1) : has_text(sheet, hdr, col)}
         IN  IF second # {} THEN Min(second) ELSE None

find_name_column(sheet, hdr, cpf, header_row) ==
    IF cpf <= 0 THEN None
    ELSE LET blank_header_cols ==
                 {col \in 0..(cpf - 1) :
                     col \in 0..(Len(header_row) - 1) /\ isna(header_row[col + 1])}
             first == {col \in blank_header_cols : has_text(sheet, hdr, col)}
             second == {col \in 0..(cpf - 1) : has_text(sheet, hdr, col)}
         IN  IF first # {} THEN Min(first)
             ELSE IF second # {} THEN Min(second)
             ELSE None

-----------------------------------------------------------------------------
(* The directory, the workbooks and the paths. *)

XLSX == <<".", "x", "l", "s", "x">>

OUTPUT_XLSX == <<"p", "i", "x", "_", "o", "u", "t", "p", "u", "t">> \o XLSX

\* whether pd.ExcelFile(path) returns
opens(path) == directory[path].opens

\* xls.sheet_names, each parsed with header=None
sheets(path) == directory[path].sheets

\* p < q for two paths of the working directory
RECURSIVE path_lt(_, _)
path_lt(p, q) ==
    IF q = <<>> THEN FALSE
    ELSE IF p = <<>> THEN TRUE
    ELSE IF Head(p) = Head(q) THEN path_lt(Tail(p), Tail(q))
    ELSE ord(Head(p)) < ord(Head(q))

\* the paths left in descending order
RECURSIVE sorted_descending(_)
sorted_descending(S) ==
    IF S = {} THEN <<>>
    ELSE LET last == CHOOSE p \in S : \A q \in S \ {p} : path_lt(q, p)
         IN  <<last>> \o sorted_descending(S \ {last})

RECURSIVE sorted(_)
sorted(S) ==
    IF S = {} THEN <<>>
    ELSE LET least == CHOOSE p \in S : \A q \in S \ {p} : path_lt(p, q)
         IN  <<least>> \o sorted(S \ {least})

\* Path('.').glob('*.xlsx')
glob_xlsx ==
    {p \in DOMAIN directory :
        Len(p) >= Len(XLSX) /\ SubSeq(p, Len(p) - Len(XLSX) + 1, Len(p)) = XLSX}

file_path == files[file_i]

df == sheets(file_path)[sheet_i]

-----------------------------------------------------------------------------
(* extract_rows_from_sheet. *)

\* resolve without the test of agencia_idx of line 111
resolve_agencia_unchecked(sheet) ==
    LET hdr == find_header_row(sheet)
        unresolved == [ok |-> FALSE, header_idx |-> hdr, cpf_idx |-> None,
                       banco_idx |-> None, agencia_idx |-> None, conta_idx |-> None,
                       chave_tipo_idx |-> None, chave_val_idx |-> None,
                       name_idx |-> None]
    IN  IF hdr = None THEN unresolved
        ELSE LET header_row == sheet[hdr + 1]
                 labels == header_labels(header_row)
                 cpf == label_idx(labels, CPF)
                 banco == label_idx(labels, BANCO)
                 agencia == label_idx(labels, AGENCIA)
                 conta == label_idx(labels, CONTA)
                 chave_tipo == label_idx(labels, CHAVE_PIX)
                 chave_val == label_idx(labels, PIX)
             IN  IF cpf = None \/ banco = None THEN unresolved
                 ELSE LET name == find_name_column(sheet, hdr, cpf, header_row)
                      IN  [ok |-> name # None, header_idx |-> hdr, cpf_idx |-> cpf,
                           banco_idx |-> banco, agencia_idx |-> agencia,
                           conta_idx |-> IF conta = None THEN agencia + 1 ELSE conta,
                           chave_tipo_idx |-> chave_tipo, chave_val_idx |-> chave_val,
                           name_idx |-> name]

\* lines 91-119: the columns of a sheet, ok when none of the three returns
\* of [] is taken
resolve(sheet) ==
    LET hdr == find_header_row(sheet)
        unresolved == [ok |-> FALSE, header_idx |-> hdr, cpf_idx |-> None,
                       banco_idx |-> None, agencia_idx |-> None, conta_idx |-> None,
                       chave_tipo_idx |-> None, chave_val_idx |-> None,
                       name_idx |-> None]
    IN  IF hdr = None THEN unresolved
        ELSE LET header_row == sheet[hdr + 1]
                 labels == header_labels(header_row)
                 cpf == label_idx(labels, CPF)
                 banco == label_idx(labels, BANCO)
                 agencia == label_idx(labels, AGENCIA)
                 conta == label_idx(labels, CONTA)
                 chave_tipo == label_idx(labels, CHAVE_PIX)
                 chave_val == label_idx(labels, PIX)
             IN  IF cpf = None \/ banco = None \/ agencia = None THEN unresolved
                 ELSE LET name == find_name_column(sheet, hdr, cpf, header_row)
                      IN  [ok |-> name # None, header_idx |-> hdr, cpf_idx |-> cpf,
                           banco_idx |-> banco, agencia_idx |-> agencia,
                           conta_idx |-> IF conta = None THEN agencia + 1 ELSE conta,
                           chave_tipo_idx |-> chave_tipo, chave_val_idx |-> chave_val,
                           name_idx |-> name]

\* skip_name without the test for TOTAL
skip_name_blank_only(name) == name = <<>>

\* line 124: not name or name.upper().startswith("TOTAL")
skip_name(name) == name = <<>> \/ startswith(upper(name), TOTAL)

\* row_fields reading the bank name in the BANCO column itself
row_fields_same_column(row) ==
    [cpf |-> clean_value(row_get(row, cpf_idx)),
     banco_codigo |-> clean_value(row_get(row, banco_idx)),
     banco_nome |-> IF banco_idx # None THEN clean_value(row_get(row, banco_idx))
                    ELSE <<>>,
     agencia |-> clean_value(row_get(row, agencia_idx)),
     conta |-> clean_value(row_get(row, conta_idx)),
     chave_tipo |-> IF chave_tipo_idx # None
                    THEN clean_value(row_get(row, chave_tipo_idx)) ELSE <<>>,
     chave_valor |-> IF chave_val_idx # None
                     THEN clean_value(row_get(row, chave_val_idx)) ELSE <<>>]

\* lines 127-133
row_fields(row) ==
    [cpf |-> clean_value(row_get(row, cpf_idx)),
     banco_codigo |-> clean_value(row_get(row, banco_idx)),
     banco_nome |-> IF banco_idx # None THEN clean_value(row_get(row, banco_idx + 1))
                    ELSE <<>>,
     agencia |-> clean_value(row_get(row, agencia_idx)),
     conta |-> clean_value(row_get(row, conta_idx)),
     chave_tipo |-> IF chave_tipo_idx # None
                    THEN clean_value(row_get(row, chave_tipo_idx)) ELSE <<>>,
     chave_valor |-> IF chave_val_idx # None
                     THEN clean_value(row_get(row, chave_val_idx)) ELSE <<>>]

\* line 135: not any([cpf, banco_codigo, banco_nome, agencia, conta, chave_tipo, chave_valor])
all_empty(f) ==
    /\ f.cpf = <<>>
    /\ f.banco_codigo = <<>>
    /\ f.banco_nome = <<>>
    /\ f.agencia = <<>>
    /\ f.conta = <<>>
    /\ f.chave_tipo = <<>>
    /\ f.chave_valor = <<>>

\* make_record coercing the CPF as well
make_record_cpf_coerced(name, f) ==
    [k \in {COLUMNS[i] : i \in 1..Len(COLUMNS)} |->
        CASE k = "NOME " -> PyStr(name)
          [] k = "CPF" -> numeric_or_string(f.cpf)
          [] k = "COD BANCO" -> numeric_or_string(f.banco_codigo)
          [] k = "BANCO" -> PyStr(f.banco_nome)
          [] k = "AGENCIA" -> PyStr(f.agencia)
          [] k = "CONTA" -> PyStr(f.conta)
          [] k = "TIPO CHAVE PIX" -> PyStr(f.chave_tipo)
          [] k = "CHAVE PIX" ->
                IF isdigit(f.chave_valor) THEN numeric_or_string(f.chave_valor)
                ELSE PyStr(f.chave_valor)]

\* lines 138-147
make_record(name, f) ==
    [k \in {COLUMNS[i] : i \in 1..Len(COLUMNS)} |->
        CASE k = "NOME " -> PyStr(name)
          [] k = "CPF" -> PyStr(f.cpf)
          [] k = "COD BANCO" -> numeric_or_string(f.banco_codigo)
          [] k = "BANCO" -> PyStr(f.banco_nome)
          [] k = "AGENCIA" -> PyStr(f.agencia)
          [] k = "CONTA" -> PyStr(f.conta)
          [] k = "TIPO CHAVE PIX" -> PyStr(f.chave_tipo)
          [] k = "CHAVE PIX" ->
                IF isdigit(f.chave_valor) THEN numeric_or_string(f.chave_valor)
                ELSE PyStr(f.chave_valor)]

\* lines 123-148: what one iteration of the loop appends to records
loop_body(row) ==
    LET name == clean_value(row_get(row, name_idx))
    IN  IF skip_name(name) THEN <<>>
        ELSE LET f == row_fields(row)
             IN  IF all_empty(f) THEN <<>> ELSE <<make_record(name, f)>>

-----------------------------------------------------------------------------
(* The program. *)

\* main, lines 168-174
ListFiles ==
    /\ pc = "main"
    /\ files' = sorted({path \in glob_xlsx : path # OUTPUT_XLSX})
    /\ all_records' = <<>>
    /\ file_i' = 1
    /\ pc' = "files"
    /\ UNCHANGED <<directory, workbookVars, sheetVars, outputVars, coerceVars>>

\* OpenFails without the try of lines 154-158: the exception ends the program
OpenFails_raises ==
    /\ pc = "files"
    /\ file_i <= Len(files)
    /\ ~opens(file_path)
    /\ pc' = "raised"
    /\ UNCHANGED <<directory, mainVars, workbookVars, sheetVars, outputVars, coerceVars>>

\* process_workbook, lines 154-158, and main, line 176
OpenFails ==
    /\ pc = "files"
    /\ file_i <= Len(files)
    /\ ~opens(file_path)
    /\ all_records' = all_records \o <<>>
    /\ file_i' = file_i + 1
    /\ UNCHANGED <<directory, pc, files, workbookVars, sheetVars, outputVars, coerceVars>>

\* process_workbook, lines 155 and 160
OpenWorkbook ==
    /\ pc = "files"
    /\ file_i <= Len(files)
    /\ opens(file_path)
    /\ wb_records' = <<>>
    /\ sheet_i' = 1
    /\ pc' = "sheets"
    /\ UNCHANGED <<directory, mainVars, sheetVars, outputVars, coerceVars>>

\* process_workbook, lines 161-163, with extract_rows_from_sheet, lines 91-119,
\* returning []
SheetUnresolved ==
    /\ pc = "sheets"
    /\ sheet_i <= Len(sheets(file_path))
    /\ ~resolve(df).ok
    /\ wb_records' = wb_records \o <<>>
    /\ sheet_i' = sheet_i + 1
    /\ UNCHANGED <<directory, pc, mainVars, sheetVars, outputVars, coerceVars>>

\* process_workbook, lines 161-163, with extract_rows_from_sheet, lines 91-121
SheetResolved ==
    /\ pc = "sheets"
    /\ sheet_i <= Len(sheets(file_path))
    /\ LET cols == resolve(df)
       IN  /\ cols.ok
           /\ header_idx' = cols.header_idx
           /\ cpf_idx' = cols.cpf_idx
           /\ banco_idx' = cols.banco_idx
           /\ agencia_idx' = cols.agencia_idx
           /\ conta_idx' = cols.conta_idx
           /\ chave_tipo_idx' = cols.chave_tipo_idx
           /\ chave_val_idx' = cols.chave_val_idx
           /\ name_idx' = cols.name_idx
           /\ row_i' = cols.header_idx + 1
    /\ records' = <<>>
    /\ pc' = "rows"
    /\ UNCHANGED <<directory, mainVars, workbookVars, outputVars, coerceVars>>

\* extract_rows_from_sheet, lines 122-148: one iteration
ExtractRow ==
    /\ pc = "rows"
    /\ row_i < Len(df)
    /\ records' = records \o loop_body(df[row_i + 1])
    /\ row_i' = row_i + 1
    /\ UNCHANGED <<directory, pc, mainVars, workbookVars, columnVars, outputVars,
                   coerceVars>>

\* extract_rows_from_sheet, line 150, and process_workbook, line 163
SheetReturn ==
    /\ pc = "rows"
    /\ row_i >= Len(df)
    /\ wb_records' = wb_records \o records
    /\ sheet_i' = sheet_i + 1
    /\ header_idx' = None
    /\ cpf_idx' = None
    /\ banco_idx' = None
    /\ agencia_idx' = None
    /\ conta_idx' = None
    /\ chave_tipo_idx' = None
    /\ chave_val_idx' = None
    /\ name_idx' = None
    /\ row_i' = None
    /\ records' = <<>>
    /\ pc' = "sheets"
    /\ UNCHANGED <<directory, mainVars, outputVars, coerceVars>>

\* process_workbook, line 164, and main, line 176
WorkbookReturn ==
    /\ pc = "sheets"
    /\ sheet_i > Len(sheets(file_path))
    /\ all_records' = all_records \o wb_records
    /\ file_i' = file_i + 1
    /\ wb_records' = <<>>
    /\ sheet_i' = None
    /\ pc' = "files"
    /\ UNCHANGED <<directory, files, sheetVars, outputVars, coerceVars>>

\* main, lines 178-182
WriteOutput ==
    /\ pc = "files"
    /\ file_i > Len(files)
    /\ output_json' = all_records
    /\ output_xlsx' = [i \in 1..Len(all_records) |->
                          [j \in 1..Len(COLUMNS) |-> all_records[i][COLUMNS[j]]]]
    /\ pc' = "done"
    /\ UNCHANGED <<directory, mainVars, workbookVars, sheetVars, coerceVars>>

\* numeric_or_string, lines 43-52, called on its own
Coerce ==
    /\ pc = "coerce"
    /\ result' = numeric_or_string(value)
    /\ pc' = "coerced"
    /\ UNCHANGED <<directory, mainVars, workbookVars, sheetVars, outputVars, value>>

Next ==
    \/ ListFiles
    \/ OpenFails
    \/ OpenWorkbook
    \/ SheetUnresolved
    \/ SheetResolved
    \/ ExtractRow
    \/ SheetReturn
    \/ WorkbookReturn
    \/ WriteOutput

-----------------------------------------------------------------------------
(* The sheets of the checked instances: rows of six cells, nine of them    *)
(* header-like (labels in several orders, cases and spellings, with and    *)
(* without blank cells) and six data-like (texts, numbers, blanks, a total *)
(* row, a name-only row, a row holding the text "CPF").                    *)

\* blank name header; bank name under a blank header; no CONTA+1, no PIX labels
Header1 ==
    <<NaN,
      PyStr(<<"C", "P", "F">>),
      PyStr(<<"B", "A", "N", "C", "O">>),
      NaN,
      PyStr(<<"A", "G", "E", "N", "C", "I", "A">>),
      PyStr(<<"C", "O", "N", "T", "A">>)>>

\* labels in lower case with spaces; AGENCIA right of BANCO; no CONTA label
Header2 ==
    <<NaN,
      PyStr(<<" ", "c", "p", "f", " ">>),
      PyStr(<<"B", "a", "n", "c", "o">>),
      PyStr(<<"a", "g", "e", "n", "c", "i", "a">>),
      PyStr(<<"C", "H", "A", "V", "E", " ", "P", "I", "X">>),
      PyStr(<<"P", "I", "X">>)>>

\* a labelled and a blank column left of CPF; BANCO in the last column
Header3 ==
    <<PyStr(<<"N", "O", "M", "E">>),
      NaN,
      PyStr(<<"C", "P", "F">>),
      PyStr(<<"P", "I", "X">>),
      PyStr(<<"A", "G", "E", "N", "C", "I", "A">>),
      PyStr(<<"B", "A", "N", "C", "O">>)>>

\* CPF in column 0
Header4 ==
    <<PyStr(<<"C", "P", "F">>),
      PyStr(<<"B", "A", "N", "C", "O">>),
      NaN,
      PyStr(<<"A", "G", "E", "N", "C", "I", "A">>),
      PyStr(<<"C", "O", "N", "T", "A">>),
      PyStr(<<"P", "I", "X">>)>>

\* a cell that contains CPF and no cell that equals it
Header5 ==
    <<NaN,
      PyStr(<<"C", "P", "F", "/", "C", "N", "P", "J">>),
      PyStr(<<"B", "A", "N", "C", "O">>),
      NaN,
      PyStr(<<"A", "G", "E", "N", "C", "I", "A">>),
      PyStr(<<"C", "O", "N", "T", "A">>)>>

\* two blank columns left of CPF; CONTA right of BANCO
Header6 ==
    <<NaN,
      NaN,
      PyStr(<<"C", "P", "F">>),
      PyStr(<<"B", "A", "N", "C", "O">>),
      PyStr(<<"C", "O", "N", "T", "A">>),
      PyStr(<<"A", "G", "E", "N", "C", "I", "A">>)>>

\* no AGENCIA label
Header7 ==
    <<NaN,
      PyStr(<<"C", "P", "F">>),
      PyStr(<<"B", "A", "N", "C", "O">>),
      NaN,
      PyStr(<<"C", "O", "N", "T", "A">>),
      PyStr(<<"P", "I", "X">>)>>

\* no BANCO label; a number in the header
Header8 ==
    <<PyInt(FALSE, <<"7">>),
      PyStr(<<"C", "P", "F">>),
      NaN,
      PyStr(<<"A", "G", "E", "N", "C", "I", "A">>),
      PyStr(<<"C", "O", "N", "T", "A">>),
      PyStr(<<"P", "I", "X">>)>>

\* a header cell of spaces and a blank one left of CPF; no CONTA label
Header9 ==
    <<PyStr(<<" ", " ">>),
      NaN,
      PyStr(<<"C", "P", "F">>),
      PyStr(<<"B", "A", "N", "C", "O">>),
      PyStr(<<"A", "G", "E", "N", "C", "I", "A">>),
      PyStr(<<"P", "I", "X">>)>>

\* a full data row
Data1 ==
    <<PyStr(<<"A", "n", "a">>),
      PyStr(<<"1", "1", "1">>),
      PyInt(FALSE, <<"1">>),
      PyStr(<<"B", "a", "n", "c", "o", " ", "X">>),
      PyStr(<<"0", "0", "0", "1">>),
      PyStr(<<"1", "2", "3", "4", "5">>)>>

\* a total row
Data2 ==
    <<PyStr(<<"T", "O", "T", "A", "L", " ", "G", "E", "R", "A", "L">>),
      NaN,
      NaN,
      NaN,
      NaN,
      PyFloat(FALSE, <<"1", "2", "0", "0">>, <<>>)>>

\* a name and nothing else
Data3 ==
    <<PyStr(<<"B", "i", "a">>),
      NaN,
      NaN,
      NaN,
      NaN,
      NaN>>

\* no name in column 0; the text CPF in a data cell
Data4 ==
    <<NaN,
      PyStr(<<"t", "o", "t", "a", "l", " ", "x">>),
      PyStr(<<"0", "4", "5">>),
      PyStr(<<"4", "5", "A">>),
      PyFloat(FALSE, <<"1", "2">>, <<"5">>),
      PyStr(<<"C", "P", "F">>)>>

\* a name of spaces; a float, another object, a digit int() rejects
Data5 ==
    <<PyStr(<<" ", " ">>),
      PyStr(<<"C", "a", "i", "o", " ">>),
      PyFloat(FALSE, <<"3", "4", "1">>, <<>>),
      PyStr(<<" ">>),
      PyOther(<<"2", "0", "2", "4">>),
      PyStr(<<"1", SUPERSCRIPT_TWO>>)>>

\* a number in column 0; an object that is no text and prints as CPF
Data6 ==
    <<PyInt(FALSE, <<"5">>),
      PyStr(<<"E", "v", "a">>),
      NaN,
      PyStr(<<"x">>),
      PyOther(<<"C", "P", "F">>),
      PyStr(<<"0", "0">>)>>

RowPalette ==
    {Header1, Header2, Header3, Header4, Header5, Header6, Header7, Header8,
     Header9,
     Data1, Data2, Data3, Data4, Data5, Data6}

\* the sheets of at most n rows over the palette
SheetsUpTo(n) == UNION {[1..k -> RowPalette] : k \in 0..n}

\* the header row of the end-to-end scenario
ScenarioHeader ==
    <<NaN,
      PyStr(<<"N", "O", "M", "E">>),
      PyStr(<<"C", "P", "F">>),
      PyStr(<<"C", "O", "D", " ", "B", "A", "N", "C", "O">>),
      PyStr(<<"B", "A", "N", "C", "O">>),
      PyStr(<<"N", "O", "M", "E", " ", "B", "A", "N", "C", "O">>),
      PyStr(<<"A", "G", "E", "N", "C", "I", "A">>),
      PyStr(<<"C", "O", "N", "T", "A">>),
      PyStr(<<"C", "H", "A", "V", "E", " ", "P", "I", "X">>),
      PyStr(<<"P", "I", "X">>)>>

\* the data row of the end-to-end scenario, with any in the NOME BANCO column
ScenarioRow(any) ==
    <<NaN,
      PyStr(<<"M", "a", "r", "i", "a", " ", "S", "i", "l", "v", "a">>),
      PyStr(<<"1", "1", "1", "2", "2", "2", "3", "3", "3", "4", "4">>),
      PyInt(FALSE, <<"1">>),
      PyStr(<<"B", "a", "n", "c", "o", " ", "X">>),
      any,
      PyStr(<<"0", "0", "0", "1">>),
      PyStr(<<"1", "2", "3", "4", "5">>),
      PyStr(<<"C", "P", "F">>),
      PyStr(<<"1", "1", "1", "2", "2", "2", "3", "3", "3", "4", "4">>)>>

ScenarioAny == {NaN, PyStr(<<" ", "B", "a", "n", "c", "o", " ", "Y">>), PyInt(FALSE, <<"7">>), PyFloat(FALSE, <<"1", "2">>, <<"5">>)}

ScenarioSheets == {<<ScenarioHeader, ScenarioRow(any)>> : any \in ScenarioAny}

(* The sheets of the batch instances: two that yield records (the second  *)
(* yields a record equal to the first record of the first) and one with   *)
(* no header row.                                                          *)

SheetA ==
    <<<<NaN,
        PyStr(<<"C", "P", "F">>),
        PyStr(<<"B", "A", "N", "C", "O">>),
        PyStr(<<"A", "G", "E", "N", "C", "I", "A">>)>>,
      <<PyStr(<<"A", "n", "a">>),
        PyStr(<<"1", "1", "1">>),
        PyInt(FALSE, <<"1">>),
        PyStr(<<"0", "0", "0", "1">>)>>,
      <<PyStr(<<"B", "i", "a">>),
        PyStr(<<"2", "2", "2">>),
        PyInt(FALSE, <<"2">>),
        PyStr(<<"0", "0", "0", "2">>)>>>>

SheetB ==
    <<<<NaN,
        PyStr(<<"C", "P", "F">>),
        PyStr(<<"B", "A", "N", "C", "O">>),
        PyStr(<<"A", "G", "E", "N", "C", "I", "A">>)>>,
      <<PyStr(<<"A", "n", "a">>),
        PyStr(<<"1", "1", "1">>),
        PyInt(FALSE, <<"1">>),
        PyStr(<<"0", "0", "0", "1">>)>>>>

SheetF ==
    <<<<PyStr(<<"x">>),
        PyStr(<<"y">>),
        NaN,
        NaN>>>>

BatchSheets == {SheetA, SheetB, SheetF}

Unopenable == [opens |-> FALSE, sheets |-> <<>>]

Workbook(ss) == [opens |-> TRUE, sheets |-> ss]

\* an unopenable workbook, or one of 1..n sheets
WorkbooksUpTo(n) ==
    {Unopenable} \cup {Workbook(ss) : ss \in UNION {[1..k -> BatchSheets] : k \in 1..n}}

FileA == <<"a">> \o XLSX
FileAB == <<"a", "-", "b">> \o XLSX
FileZ == <<"z">> \o XLSX

BatchFiles == {FileA, FileAB, FileZ}

\* the directories holding the files S with at most n sheets in all
RECURSIVE DirectoriesOf(_, _)
DirectoriesOf(S, n) ==
    IF S = {} THEN {<<>>}
    ELSE LET path == CHOOSE p \in S : TRUE
         IN  UNION {{(path :> wb) @@ rest :
                        rest \in DirectoriesOf(S \ {path}, n - Len(wb.sheets))} :
                    wb \in WorkbooksUpTo(n)}

\* a pix_output.xlsx left by an earlier run
PriorOutput == OUTPUT_XLSX :> Workbook(<<SheetA>>)

BatchDirectories ==
    LET plain == UNION {DirectoriesOf(S, MaxSheets) :
                           S \in {S \in SUBSET BatchFiles : Cardinality(S) <= MaxFiles}}
    IN  plain \cup {PriorOutput @@ d : d \in plain}

Texts == UNION {[1..k -> {"0", "4", "5", "A", " ", "-", SUPERSCRIPT_TWO}] : k \in 0..MaxLen}

Idle ==
    /\ files = <<>>
    /\ file_i = None
    /\ all_records = <<>>
    /\ sheet_i = None
    /\ wb_records = <<>>
    /\ header_idx = None
    /\ cpf_idx = None
    /\ banco_idx = None
    /\ agencia_idx = None
    /\ conta_idx = None
    /\ chave_tipo_idx = None
    /\ chave_val_idx = None
    /\ name_idx = None
    /\ row_i = None
    /\ records = <<>>
    /\ output_json = <<>>
    /\ output_xlsx = <<>>

\* one workbook: unopenable, or of one sheet
Init ==
    /\ directory \in
          {FileA :> wb :
              wb \in {Unopenable}
                     \cup {Workbook(<<s>>) : s \in SheetsUpTo(MaxRows) \cup ScenarioSheets}}
    /\ pc = "main"
    /\ Idle
    /\ value = <<>>
    /\ result = PyNone

Spec == Init /\ [][Next]_vars

\* a batch of workbooks
InitBatch ==
    /\ directory \in BatchDirectories
    /\ pc = "main"
    /\ Idle
    /\ value = <<>>
    /\ result = PyNone

SpecBatch == InitBatch /\ [][Next]_vars

\* numeric_or_string on every text of at most MaxLen characters
InitCoerce ==
    /\ directory = <<>>
    /\ pc = "coerce"
    /\ Idle
    /\ value \in Texts
    /\ result = PyNone

SpecCoerce == InitCoerce /\ [][Coerce]_vars

-----------------------------------------------------------------------------
(* Properties.  The definitions below restate what each property is about  *)
(* in its own terms; they are compared with what the program computes.     *)

\* the sheet of the single-sheet instances
TheSheet == directory[FileA].sheets[1]

HasOneSheet == FileA \in DOMAIN directory /\ directory[FileA].opens

\* a text cell whose upper-cased content includes CPF
NamesCpf(cell) == cell.type = "str" /\ contains(upper(cell.s), CPF)

\* the smallest row index holding such a cell, or None
FirstCpfRow(sheet) ==
    LET rows == {r \in 0..(Len(sheet) - 1) :
                    \E c \in 1..Len(sheet[r + 1]) : NamesCpf(sheet[r + 1][c])}
    IN  IF rows = {} THEN None ELSE CHOOSE r \in rows : \A q \in rows : r <= q

\* the columns of row h whose text, stripped and upper-cased, equals label
Labelled(sheet, h, label) ==
    {c \in 0..(Len(sheet[h + 1]) - 1) :
        /\ sheet[h + 1][c + 1].type = "str"
        /\ upper(strip(sheet[h + 1][c + 1].s)) = label}

\* the column carrying label in row h (the leftmost, should several carry it)
LabelColumn(sheet, h, label) ==
    CHOOSE c \in Labelled(sheet, h, label) : \A d \in Labelled(sheet, h, label) : c <= d

\* row h carries the three required labels
RequiredLabels(sheet, h) ==
    /\ Labelled(sheet, h, CPF) # {}
    /\ Labelled(sheet, h, BANCO) # {}
    /\ Labelled(sheet, h, AGENCIA) # {}

\* column c holds a non-blank text value strictly below row h
TextBelow(sheet, h, c) ==
    \E r \in (h + 1)..(Len(sheet) - 1) :
        /\ sheet[r + 1][c + 1].type = "str"
        /\ strip(sheet[r + 1][c + 1].s) # <<>>

\* the name column of the two passes of C4 for header row h, or None
NameColumn(sheet, h) ==
    LET cpf == LabelColumn(sheet, h, CPF)
        blank == {c \in 0..(cpf - 1) : sheet[h + 1][c + 1].type = "nan"}
        pass1 == {c \in blank : TextBelow(sheet, h, c)}
        pass2 == {c \in 0..(cpf - 1) : TextBelow(sheet, h, c)}
    IN  IF pass1 # {} THEN CHOOSE c \in pass1 : \A d \in pass1 : c <= d
        ELSE IF pass2 # {} THEN CHOOSE c \in pass2 : \A d \in pass2 : c <= d
        ELSE None

\* the normalized cell of a row at a column, empty text beyond the row
Normalized(row, c) == IF c \in 0..(Len(row) - 1) THEN clean_value(row[c + 1]) ELSE <<>>

\* a text of decimal digits only
AllDecimal(text) == text # <<>> /\ \A i \in 1..Len(text) : text[i] \in DecimalChars

\* the decimal digits of the integer a text of digits denotes
RECURSIVE Denoted(_)
Denoted(text) ==
    IF Len(text) > 1 /\ text[1] = "0" THEN Denoted(SubSeq(text, 2, Len(text)))
    ELSE text

IsText(v, text) == v = [type |-> "str", s |-> text]

IsInteger(v, digits) == v = [type |-> "int", neg |-> FALSE, digits |-> digits]

\* the sheet being read, while extract_rows_from_sheet runs
InRows == pc = "rows"

\* C1 (as the spec states it): the scenario sheet yields exactly one Record with
\* NOME "Maria Silva", CPF "11122233344", COD BANCO integer 1, BANCO "Banco X",
\* AGENCIA "0001", CONTA "12345", TIPO CHAVE PIX "CPF", CHAVE PIX integer 11122233344.
C1_Original ==
    (pc = "done" /\ HasOneSheet /\ TheSheet \in ScenarioSheets) =>
        /\ Len(output_json) = 1
        /\ IsText(output_json[1]["NOME "], <<"M", "a", "r", "i", "a", " ", "S", "i", "l", "v", "a">>)
        /\ IsText(output_json[1]["CPF"], <<"1", "1", "1", "2", "2", "2", "3", "3", "3", "4", "4">>)
        /\ IsInteger(output_json[1]["COD BANCO"], <<"1">>)
        /\ IsText(output_json[1]["BANCO"], <<"B", "a", "n", "c", "o", " ", "X">>)
        /\ IsText(output_json[1]["AGENCIA"], <<"0", "0", "0", "1">>)
        /\ IsText(output_json[1]["CONTA"], <<"1", "2", "3", "4", "5">>)
        /\ IsText(output_json[1]["TIPO CHAVE PIX"], CPF)
        /\ IsInteger(output_json[1]["CHAVE PIX"], <<"1", "1", "1", "2", "2", "2", "3", "3", "3", "4", "4">>)

\* the normalized text of the cells tried under NOME BANCO in the scenario
ScenarioNomeBanco(any) ==
    CASE any = NaN -> <<>>
      [] any = PyStr(<<" ", "B", "a", "n", "c", "o", " ", "Y">>) -> <<"B", "a", "n", "c", "o", " ", "Y">>
      [] any = PyInt(FALSE, <<"7">>) -> <<"7">>
      [] any = PyFloat(FALSE, <<"1", "2">>, <<"5">>) -> <<"1", "2", ".", "5">>

\* C1 (amended): the scenario sheet yields exactly one Record, whose COD BANCO is
\* the text "Banco X" (the cell under the BANCO label) and whose BANCO is the
\* normalized cell under NOME BANCO (the column right of the BANCO label); the six
\* other fields are as stated, the name under the key "NOME ".
C1_Scenario ==
    \A any \in ScenarioAny :
        (pc = "done" /\ HasOneSheet /\ TheSheet = <<ScenarioHeader, ScenarioRow(any)>>) =>
            /\ Len(output_json) = 1
            /\ DOMAIN output_json[1] = {COLUMNS[i] : i \in 1..Len(COLUMNS)}
            /\ IsText(output_json[1]["NOME "], <<"M", "a", "r", "i", "a", " ", "S", "i", "l", "v", "a">>)
            /\ IsText(output_json[1]["CPF"], <<"1", "1", "1", "2", "2", "2", "3", "3", "3", "4", "4">>)
            /\ IsText(output_json[1]["COD BANCO"], <<"B", "a", "n", "c", "o", " ", "X">>)
            /\ IsText(output_json[1]["BANCO"], ScenarioNomeBanco(any))
            /\ IsText(output_json[1]["AGENCIA"], <<"0", "0", "0", "1">>)
            /\ IsText(output_json[1]["CONTA"], <<"1", "2", "3", "4", "5">>)
            /\ IsText(output_json[1]["TIPO CHAVE PIX"], CPF)
            /\ IsInteger(output_json[1]["CHAVE PIX"], <<"1", "1", "1", "2", "2", "2", "3", "3", "3", "4", "4">>)

C1_Witness ==
    /\ pc = "done"
    /\ HasOneSheet
    /\ TheSheet = <<ScenarioHeader, ScenarioRow(PyStr(<<" ", "B", "a", "n", "c", "o", " ", "Y">>))>>
    /\ Len(output_json) = 1

\* a sheet on which a resolution step fails, in the words of C2
Unresolvable(sheet) ==
    LET h == FirstCpfRow(sheet)
    IN  \/ \A r \in 1..Len(sheet) : \A c \in 1..Len(sheet[r]) : ~NamesCpf(sheet[r][c])
        \/ h # None /\ ~RequiredLabels(sheet, h)
        \/ /\ h # None
           /\ RequiredLabels(sheet, h)
           /\ \A c \in 0..(LabelColumn(sheet, h, CPF) - 1) : ~TextBelow(sheet, h, c)

\* C2: a sheet with no text cell containing CPF, or whose header row lacks a cell
\* equal to CPF, BANCO or AGENCIA, or with no name column left of the CPF column,
\* yields the empty sequence: its rows are never read and no record is ever held or
\* written.
C2_EmptyOnFailure ==
    (\/ pc = "rows"
     \/ records # <<>>
     \/ wb_records # <<>>
     \/ all_records # <<>>
     \/ output_json # <<>>
     \/ output_xlsx # <<>>) => ~(HasOneSheet /\ Unresolvable(TheSheet))

C2_Witness ==
    /\ pc = "done"
    /\ HasOneSheet
    /\ FirstCpfRow(TheSheet) # None
    /\ RequiredLabels(TheSheet, FirstCpfRow(TheSheet))
    /\ Len(TheSheet) > FirstCpfRow(TheSheet) + 1
    /\ Unresolvable(TheSheet)
    /\ output_json = <<>>

\* the seven normalized fields of a row, in the words of C3, while the sheet is read
SevenFields(sheet, h, row) ==
    LET banco == LabelColumn(sheet, h, BANCO)
        agencia == LabelColumn(sheet, h, AGENCIA)
    IN  {Normalized(row, LabelColumn(sheet, h, CPF)),
         Normalized(row, banco),
         Normalized(row, banco + 1),
         Normalized(row, agencia),
         Normalized(row, IF Labelled(sheet, h, CONTA) # {}
                         THEN LabelColumn(sheet, h, CONTA) ELSE agencia + 1),
         IF Labelled(sheet, h, CHAVE_PIX) # {}
         THEN Normalized(row, LabelColumn(sheet, h, CHAVE_PIX)) ELSE <<>>,
         IF Labelled(sheet, h, PIX) # {}
         THEN Normalized(row, LabelColumn(sheet, h, PIX)) ELSE <<>>}

\* a row that yields a Record, in the words of C3
Yields(sheet, h, name_col, row) ==
    /\ Normalized(row, name_col) # <<>>
    /\ ~startswith(upper(Normalized(row, name_col)), TOTAL)
    /\ SevenFields(sheet, h, row) # {<<>>}

\* C3: while a resolved sheet is read, the records held are as many as the rows
\* read so far (those strictly below the header row) that have a non-empty name
\* not starting with TOTAL and a non-empty field among the seven; so each row
\* yields exactly one Record or none, by that test alone, and every row below the
\* header is read before the sheet returns.
C3_RowFilter ==
    /\ InRows =>
          /\ row_i \in (header_idx + 1)..Len(df)
          /\ Len(records) =
                Cardinality({r \in (header_idx + 1)..(row_i - 1) :
                                Yields(df, header_idx, name_idx, df[r + 1])})
    /\ (pc = "done" /\ HasOneSheet /\ ~Unresolvable(TheSheet)) =>
          LET h == FirstCpfRow(TheSheet)
          IN  Len(output_json) =
                  Cardinality({r \in (h + 1)..(Len(TheSheet) - 1) :
                                  Yields(TheSheet, h, NameColumn(TheSheet, h),
                                         TheSheet[r + 1])})

\* a TOTAL row with other fields filled was skipped and another row kept
C3_Witness ==
    /\ InRows
    /\ row_i = Len(df)
    /\ Len(records) = 1
    /\ \E r \in (header_idx + 1)..(Len(df) - 1) :
           /\ startswith(upper(Normalized(df[r + 1], name_idx)), TOTAL)
           /\ SevenFields(df, header_idx, df[r + 1]) # {<<>>}

\* C4: when the header row and the required labels resolve, the name column is the
\* result of the two passes over the columns left of the CPF column: it fails
\* (the sheet yields nothing) when neither pass finds a column, in particular when
\* the CPF column is 0, and is otherwise the column the passes give, strictly left
\* of the CPF column.
C4_NameColumn ==
    [][(/\ pc = "sheets"
        /\ sheet_i <= Len(sheets(file_path))
        /\ FirstCpfRow(df) # None
        /\ RequiredLabels(df, FirstCpfRow(df)))
       => IF NameColumn(df, FirstCpfRow(df)) = None
          THEN pc' = "sheets" /\ wb_records' = wb_records
          ELSE /\ pc' = "rows"
               /\ name_idx' = NameColumn(df, FirstCpfRow(df))
               /\ name_idx' >= 0
               /\ name_idx' < cpf_idx']_vars

\* pass 2 chose a labelled column although a blank-header column lies left of CPF
C4_Witness ==
    /\ InRows
    /\ df[header_idx + 1][name_idx + 1].type = "str"
    /\ strip(df[header_idx + 1][name_idx + 1].s) # <<>>
    /\ \E c \in 0..(cpf_idx - 1) : df[header_idx + 1][c + 1].type = "nan"

\* C5: numeric_or_string returns the empty text for the empty text, the integer
\* denoted for a text of decimal digits only (45 for "045"), and any other text
\* unchanged.
C5_Coerce ==
    pc = "coerced" =>
        /\ (value = <<>> => IsText(result, <<>>))
        /\ (AllDecimal(value) => IsInteger(result, Denoted(value)))
        /\ (value = <<"0", "4", "5">> => IsInteger(result, <<"4", "5">>))
        /\ (value = <<"4", "5", "A">> => IsText(result, <<"4", "5", "A">>))
        /\ (~AllDecimal(value) => IsText(result, value))

C5_Witness ==
    /\ pc = "coerced"
    /\ value = <<"0", "4", "5">>
    /\ result = [type |-> "int", neg |-> FALSE, digits |-> <<"4", "5">>]

\* the Record of the row Ana of SheetA and of SheetB: the bank name is read right
\* of the BANCO label, under AGENCIA; the sheet has no CONTA, key-type or key columns
RecordAna ==
    [k \in {COLUMNS[i] : i \in 1..Len(COLUMNS)} |->
        CASE k = "NOME " -> [type |-> "str", s |-> <<"A", "n", "a">>]
          [] k = "CPF" -> [type |-> "str", s |-> <<"1", "1", "1">>]
          [] k = "COD BANCO" -> [type |-> "int", neg |-> FALSE, digits |-> <<"1">>]
          [] k = "BANCO" -> [type |-> "str", s |-> <<"0", "0", "0", "1">>]
          [] k = "AGENCIA" -> [type |-> "str", s |-> <<"0", "0", "0", "1">>]
          [] OTHER -> [type |-> "str", s |-> <<>>]]

\* the Record of the row Bia of SheetA
RecordBia ==
    [k \in {COLUMNS[i] : i \in 1..Len(COLUMNS)} |->
        CASE k = "NOME " -> [type |-> "str", s |-> <<"B", "i", "a">>]
          [] k = "CPF" -> [type |-> "str", s |-> <<"2", "2", "2">>]
          [] k = "COD BANCO" -> [type |-> "int", neg |-> FALSE, digits |-> <<"2">>]
          [] k = "BANCO" -> [type |-> "str", s |-> <<"0", "0", "0", "2">>]
          [] k = "AGENCIA" -> [type |-> "str", s |-> <<"0", "0", "0", "2">>]
          [] OTHER -> [type |-> "str", s |-> <<>>]]

\* the records each sheet of a batch yields, in row order
SheetYield(sheet) ==
    CASE sheet = SheetA -> <<RecordAna, RecordBia>>
      [] sheet = SheetB -> <<RecordAna>>
      [] sheet = SheetF -> <<>>

RECURSIVE Flatten(_)
Flatten(ss) == IF ss = <<>> THEN <<>> ELSE Head(ss) \o Flatten(Tail(ss))

\* the records a workbook of a batch yields: none when it cannot be opened
WorkbookYield(wb) ==
    IF wb.opens THEN Flatten([i \in 1..Len(wb.sheets) |-> SheetYield(wb.sheets[i])])
    ELSE <<>>

\* the workbooks of the batch by file name: "-" sorts before ".", "a" before "z";
\* a prior pix_output.xlsx is no workbook of the batch
BatchOrder ==
    SelectSeq(<<FileAB, FileA, FileZ>>, LAMBDA path : path \in DOMAIN directory)

\* C6: no failure stops the batch: the program is always at one of its positions,
\* never stopped by an error; a workbook that cannot be opened and a sheet that
\* cannot be resolved add nothing, and every workbook and sheet before and after
\* them is read, so the records held after k workbooks, and written at the end,
\* are as many as those workbooks' resolvable sheets yield.
C6_Containment ==
    /\ pc \in {"main", "files", "sheets", "rows", "done"}
    /\ pc = "files" =>
          /\ file_i \in 1..(Len(BatchOrder) + 1)
          /\ Len(all_records) =
                Len(Flatten([k \in 1..(file_i - 1) |->
                                WorkbookYield(directory[BatchOrder[k]])]))
    /\ pc = "done" =>
          /\ Len(output_json) =
                Len(Flatten([k \in 1..Len(BatchOrder) |->
                                WorkbookYield(directory[BatchOrder[k]])]))
          /\ \A k \in 1..Len(BatchOrder) :
                \A i \in 1..Len(WorkbookYield(directory[BatchOrder[k]])) :
                    \E j \in 1..Len(output_json) :
                        output_json[j] = WorkbookYield(directory[BatchOrder[k]])[i]

\* records were written although the first workbook did not open and the first
\* sheet of the second did not resolve
C6_Witness ==
    /\ pc = "done"
    /\ Len(BatchOrder) = 2
    /\ ~directory[BatchOrder[1]].opens
    /\ directory[BatchOrder[2]].opens
    /\ directory[BatchOrder[2]].sheets = <<SheetF, SheetA>>
    /\ Len(output_json) = 2

\* C7: what is written is exactly the records of the workbooks in file-name order,
\* of each workbook's sheets in sheet order, of each sheet's rows in row order,
\* equal records included, none changed; the table written holds the same
\* records in the same order.
C7_OutputOrder ==
    pc = "done" =>
        /\ output_json =
              Flatten([k \in 1..Len(BatchOrder) |-> WorkbookYield(directory[BatchOrder[k]])])
        /\ Len(output_xlsx) = Len(output_json)
        /\ \A i \in 1..Len(output_json) :
              \A j \in 1..Len(COLUMNS) : output_xlsx[i][j] = output_json[i][COLUMNS[j]]

\* two workbooks beside a prior pix_output.xlsx; the same record from two sheets
C7_Witness ==
    /\ pc = "done"
    /\ OUTPUT_XLSX \in DOMAIN directory
    /\ Len(BatchOrder) = 2
    /\ directory[BatchOrder[1]].opens
    /\ directory[BatchOrder[1]].sheets = <<SheetB, SheetA>>
    /\ directory[BatchOrder[2]].opens
    /\ directory[BatchOrder[2]].sheets = <<SheetB>>
    /\ output_json = <<RecordAna, RecordAna, RecordBia, RecordAna>>

\* the row a step of the loop reads and the Record the step appends
AppendsRecord == InRows /\ pc' = "rows" /\ Len(records') = Len(records) + 1

\* a field that is the integer a text of decimal digits denotes, or the text
Coerced(v, text) ==
    IF AllDecimal(text) THEN IsInteger(v, Denoted(text)) ELSE IsText(v, text)

\* C8: in every Record appended, COD BANCO and CHAVE PIX are the integer their
\* normalized text denotes when that text is non-empty and all decimal digits, and
\* the normalized text otherwise; the six other fields are text.
C8_FieldTyping ==
    [][AppendsRecord =>
        LET rec == records'[Len(records')]
            row == df[row_i + 1]
        IN  /\ Coerced(rec["COD BANCO"],
                       Normalized(row, LabelColumn(df, header_idx, BANCO)))
            /\ Coerced(rec["CHAVE PIX"],
                       IF Labelled(df, header_idx, PIX) # {}
                       THEN Normalized(row, LabelColumn(df, header_idx, PIX))
                       ELSE <<>>)
            /\ \A k \in {"NOME ", "CPF", "BANCO", "AGENCIA", "CONTA", "TIPO CHAVE PIX"} :
                  rec[k].type = "str"
            /\ IsText(rec["CPF"], Normalized(row, LabelColumn(df, header_idx, CPF)))]_vars

\* a Record whose CPF is the text of a numeric cell and whose COD BANCO is an integer
C8_Witness ==
    /\ InRows
    /\ row_i > header_idx + 1
    /\ Len(records) = row_i - header_idx - 1
    /\ df[row_i][cpf_idx + 1].type = "int"
    /\ records[Len(records)]["CPF"].type = "str"
    /\ records[Len(records)]["CPF"].s # <<>>
    /\ records[Len(records)]["COD BANCO"].type = "int"
    /\ records[Len(records)]["CHAVE PIX"].type = "str"

\* C9: in every Record appended, BANCO is the normalized cell right of the BANCO
\* label, CONTA the normalized cell under the CONTA label or, without one, right of
\* the AGENCIA label, TIPO CHAVE PIX and CHAVE PIX are empty when their label is
\* absent, and a column beyond the row gives the empty text.
C9_DerivedColumns ==
    [][AppendsRecord =>
        LET rec == records'[Len(records')]
            row == df[row_i + 1]
            h == header_idx
        IN  /\ IsText(rec["BANCO"], Normalized(row, LabelColumn(df, h, BANCO) + 1))
            /\ IsText(rec["CONTA"],
                      IF Labelled(df, h, CONTA) # {}
                      THEN Normalized(row, LabelColumn(df, h, CONTA))
                      ELSE Normalized(row, LabelColumn(df, h, AGENCIA) + 1))
            /\ IsText(rec["AGENCIA"], Normalized(row, LabelColumn(df, h, AGENCIA)))
            /\ IsText(rec["TIPO CHAVE PIX"],
                      IF Labelled(df, h, CHAVE_PIX) # {}
                      THEN Normalized(row, LabelColumn(df, h, CHAVE_PIX))
                      ELSE <<>>)
            /\ (Labelled(df, h, PIX) = {} => IsText(rec["CHAVE PIX"], <<>>))
            /\ (LabelColumn(df, h, BANCO) + 1 >= Len(row) => IsText(rec["BANCO"], <<>>))]_vars

\* a Record of a sheet whose BANCO label is in the last column, with no CONTA and
\* no CHAVE PIX label
C9_Witness ==
    /\ InRows
    /\ records # <<>>
    /\ banco_idx + 1 = Len(df[header_idx + 1])
    /\ Labelled(df, header_idx, CONTA) = {}
    /\ chave_tipo_idx = None
    /\ records[Len(records)]["BANCO"].s = <<>>
    /\ records[Len(records)]["CONTA"].s # <<>>
    /\ records[Len(records)]["TIPO CHAVE PIX"].s = <<>>

\* C10: while a sheet is read, its header row is the first row holding a text cell
\* that contains CPF, the columns are those carrying the labels in that row, the
\* rows read lie strictly below it and the records held are no more than the rows
\* read; a sheet with no such row is never read, and what is written holds no more
\* records than the sheet has rows below its header row.
C10_HeaderRow ==
    /\ InRows =>
          /\ FirstCpfRow(df) # None
          /\ header_idx = FirstCpfRow(df)
          /\ row_i > header_idx
          /\ Len(records) <= row_i - header_idx - 1
          /\ cpf_idx = LabelColumn(df, header_idx, CPF)
          /\ banco_idx = LabelColumn(df, header_idx, BANCO)
          /\ agencia_idx = LabelColumn(df, header_idx, AGENCIA)
          /\ chave_tipo_idx # None => chave_tipo_idx = LabelColumn(df, header_idx, CHAVE_PIX)
          /\ chave_val_idx # None => chave_val_idx = LabelColumn(df, header_idx, PIX)
    /\ (pc = "done" /\ output_json # <<>> /\ HasOneSheet) =>
          /\ FirstCpfRow(TheSheet) # None
          /\ Len(output_json) <= Len(TheSheet) - FirstCpfRow(TheSheet) - 1

\* a header row below a row whose only CPF is in a cell that is no text
C10_Witness ==
    /\ InRows
    /\ header_idx = 1
    /\ \E c \in 1..Len(df[1]) : df[1][c].type = "other" /\ contains(upper(df[1][c].s), CPF)
    /\ records # <<>>

=============================================================================
